---- MODULE Spec2Model ----
(***************************************************************************)
(* Model of the anomaly-detection core of the Hawkins Anomaly Detection    *)
(* System: SensorHistory (rolling statistics), AnomalyDetector (threshold  *)
(* and z-score checks, analyze, reset_history).                            *)
(*                                                                         *)
(* Numbers.  Sensor values are integers; mean and m2 are exact rationals   *)
(* <<numerator, denominator>> in lowest terms with a positive denominator, *)
(* i.e. the real-number value of the float expressions of the source.      *)
(* A z-score is sign * sqrt(sq): the record [sgn, sq] holds its sign and   *)
(* its square, so |z| > t is decided exactly as sq > t*t.                  *)
(*                                                                         *)
(* Optional values.  Python's None is the empty tuple <<>>, a present      *)
(* value x is <<x>>.  A dict is a function whose DOMAIN is its key set.    *)
(*                                                                         *)
(* Records.  A dict with fixed keys is a record.  Every record constructor *)
(* lists its fields in the order in which the field names first occur in   *)
(* this module, the order in which TLC stores them; the order of the keys  *)
(* of a Python dict plays no part in any result modelled here.             *)
(***************************************************************************)
EXTENDS Integers, Sequences, FiniteSets, TLC

VARIABLES
    thresholds_arg,     \* the `thresholds` argument given to __init__
    thresholds,         \* self.thresholds
    z_score_threshold,  \* self.z_score_threshold (a rational)
    use_zscore,         \* self.use_zscore
    history_size,       \* self.history_size
    sensor_history,     \* self.sensor_history: channel -> SensorHistory
    added,              \* per channel: the values given to add_value since
                        \* the channel's history was created or reset
    call,               \* the last call: its name and arguments
    ret,                \* what the last call returned
    trace,              \* analyze: the sensor_result built for every reading
                        \* that had a value, in the order of the readings
    anomaly_result,     \* the detection result the caller holds (<<>>: none)
    breach,             \* <<the BreachAssessment computed from it>>, or <<>>
    explanation,        \* <<the explanation text of the last cycle>>, or <<>>
    driver,             \* what runs the cycles: "none", "cli" (main.py),
                        \* "dashboard" (streamlit_app.py), or "crashed" once
                        \* an exception has left the loop of main
    collab,             \* how the collaborators behaved in the last cycle
    sent,               \* what the last cycle handed to the metrics client
    session,            \* st.session_state of the dashboard
    stop_flag,          \* main: the list the signal handler appends to
    loop                \* main: where its loop stands, [pc, i, n] with pc
                        \* "test" (the while test), "cycle" (run_pipeline
                        \* called), "sleep" (the wait, i of its n rounds
                        \* done) or "exit" (past the loop)

vars == <<thresholds_arg, thresholds, z_score_threshold, use_zscore,
          history_size, sensor_history, added, call, ret, trace,
          anomaly_result, breach, explanation, driver, collab, sent,
          session, stop_flag, loop>>

\* what the cycles keep besides the detection result and its assessment
cycle == <<explanation, driver, collab, sent, session>>

\* the flag and the position of the loop of main
main_loop == <<stop_flag, loop>>

\* what the caller of the detector holds
outside == <<anomaly_result, breach, cycle, main_loop>>

config == <<thresholds_arg, thresholds, z_score_threshold, use_zscore,
            history_size>>

---------------------------------------------------------------------------
(* Exact rational arithmetic                                               *)

Abs(x) == IF x < 0 THEN -x ELSE x

Min(a, b) == IF a < b THEN a ELSE b

RECURSIVE GCD(_, _)
GCD(a, b) == IF b = 0 THEN a ELSE GCD(b, a % b)

Rat(n, d) ==
    LET g == GCD(Abs(n), Abs(d))
        s == IF d < 0 THEN -1 ELSE 1
    IN  <<(s * n) \div g, (s * d) \div g>>

RInt(x) == <<x, 1>>
RZero == <<0, 1>>
RAdd(p, q) == Rat(p[1] * q[2] + q[1] * p[2], p[2] * q[2])
RSub(p, q) == Rat(p[1] * q[2] - q[1] * p[2], p[2] * q[2])
RMul(p, q) == Rat(p[1] * q[1], p[2] * q[2])
RDiv(p, q) == Rat(p[1] * q[2], p[2] * q[1])
RLess(p, q) == p[1] * q[2] < q[1] * p[2]
RSign(p) == IF p[1] > 0 THEN 1 ELSE IF p[1] < 0 THEN -1 ELSE 0

---------------------------------------------------------------------------
(* Program constants                                                       *)

THRESHOLDS ==
    [c \in {"temperature", "gas", "vibration", "cpu_usage"} |->
        CASE c = "temperature" -> [min |-> 15, max |-> 32]
          [] c = "gas"         -> [min |-> 0,  max |-> 75]
          [] c = "vibration"   -> [min |-> 0,  max |-> 4]
          [] c = "cpu_usage"   -> [min |-> 0,  max |-> 85]]

Z_SCORE_THRESHOLD == <<5, 2>>

MIN_SAMPLES_FOR_ZSCORE == 10

\* deque(maxlen=100) of the dataclass field's default factory
DEQUE_MAXLEN == 100

\* history_size: int = 100
DEFAULT_HISTORY_SIZE == 100

---------------------------------------------------------------------------
(* SensorHistory                                                           *)

SensorHistory(max_samples) ==
    [max_samples |-> max_samples, values |-> <<>>, count |-> 0,
     mean |-> RZero, m2 |-> RZero]

\* deque.append on a deque with maxlen: a full deque drops its leftmost item
DequeAppend(values, value) ==
    IF Len(values) >= DEQUE_MAXLEN
        THEN Append(Tail(values), value)
        ELSE Append(values, value)

\* sum(self.values); the sum over positions lo..hi is taken by halves, which
\* keeps the evaluation shallow for a full buffer
RECURSIVE SumRange(_, _, _)
SumRange(s, lo, hi) ==
    IF lo > hi THEN 0
    ELSE IF lo = hi THEN s[lo]
    ELSE LET mid == (lo + hi) \div 2
         IN  SumRange(s, lo, mid) + SumRange(s, mid + 1, hi)

SumInts(s) == SumRange(s, 1, Len(s))

\* sum((x - self.mean) ** 2 for x in self.values), by halves as well
RECURSIVE SumSqDevRange(_, _, _, _)
SumSqDevRange(s, mean, lo, hi) ==
    IF lo > hi THEN RZero
    ELSE IF lo = hi
        THEN LET d == RSub(RInt(s[lo]), mean) IN RMul(d, d)
    ELSE LET mid == (lo + hi) \div 2
         IN  RAdd(SumSqDevRange(s, mean, lo, mid),
                  SumSqDevRange(s, mean, mid + 1, hi))

SumSqDev(s, mean) == SumSqDevRange(s, mean, 1, Len(s))

RecalculateStats(h) ==
    IF h.values = <<>>
        THEN [h EXCEPT !.count = 0, !.mean = RZero, !.m2 = RZero]
        ELSE LET count == Len(h.values)
                 mean == RDiv(RInt(SumInts(h.values)), RInt(count))
             IN  [h EXCEPT !.count = count, !.mean = mean,
                           !.m2 = SumSqDev(h.values, mean)]

AddValue(h, value) ==
    IF Len(h.values) >= h.max_samples
        THEN RecalculateStats([h EXCEPT !.values = DequeAppend(h.values, value)])
        ELSE LET count == h.count + 1
                 delta == RSub(RInt(value), h.mean)
                 mean == RAdd(h.mean, RDiv(delta, RInt(count)))
                 delta2 == RSub(RInt(value), mean)
             IN  [h EXCEPT !.values = DequeAppend(h.values, value),
                           !.count = count,
                           !.mean = mean,
                           !.m2 = RAdd(h.m2, RMul(delta, delta2))]

Variance(h) == IF h.count < 2 THEN RZero ELSE RDiv(h.m2, RInt(h.count))

\* std_dev = sqrt(variance): zero exactly when the variance is zero
StdDevIsZero(h) == Variance(h) = RZero

\* as get_zscore, counting the queried value among the samples
GetZscoreCountsCurrent(h, value) ==
    IF h.count + 1 < MIN_SAMPLES_FOR_ZSCORE THEN <<>>
    ELSE IF StdDevIsZero(h)
        THEN (IF RInt(value) = h.mean THEN <<[sgn |-> 0, sq |-> RZero]>> ELSE <<>>)
    ELSE LET d == RSub(RInt(value), h.mean)
         IN  <<[sgn |-> RSign(d), sq |-> RDiv(RMul(d, d), Variance(h))]>>

\* None is <<>>; a z-score (value - mean) / std_dev is <<[sgn, sq]>>
GetZscore(h, value) ==
    IF h.count < MIN_SAMPLES_FOR_ZSCORE THEN <<>>
    ELSE IF StdDevIsZero(h)
        THEN (IF RInt(value) = h.mean THEN <<[sgn |-> 0, sq |-> RZero]>> ELSE <<>>)
    ELSE LET d == RSub(RInt(value), h.mean)
         IN  <<[sgn |-> RSign(d), sq |-> RDiv(RMul(d, d), Variance(h))]>>

---------------------------------------------------------------------------
(* AnomalyDetector                                                         *)

\* __init__: self.thresholds = thresholds or THRESHOLDS
\* (None and the empty dict are both falsy)
InitThresholds(arg) ==
    IF arg = <<>> THEN THRESHOLDS
    ELSE IF DOMAIN arg[1] = {} THEN THRESHOLDS
    ELSE arg[1]

\* dict.get(key) on a result dict, read for its truth value
GetFlag(d, key) == IF key \in DOMAIN d THEN d[key] ELSE FALSE

GetOrCreateHistory(H, sensor_name) ==
    IF sensor_name \notin DOMAIN H
        THEN [c \in DOMAIN H \cup {sensor_name} |->
                 IF c = sensor_name THEN SensorHistory(history_size) ELSE H[c]]
        ELSE H

\* as check_threshold, with the upper bound itself out of range
CheckThresholdInclusive(sensor_name, value) ==
    IF sensor_name \notin DOMAIN thresholds
        THEN [checked |-> FALSE, reason |-> "no_threshold_config"]
        ELSE LET min_val == thresholds[sensor_name].min
                 max_val == thresholds[sensor_name].max
             IN  [value |-> value,
                  checked |-> TRUE,
                  is_anomaly |-> (value < min_val \/ value >= max_val),
                  min_threshold |-> min_val,
                  max_threshold |-> max_val,
                  violation |-> IF value < min_val THEN "below_min"
                                ELSE IF value >= max_val THEN "above_max"
                                ELSE "None"]

CheckThreshold(sensor_name, value) ==
    IF sensor_name \notin DOMAIN thresholds
        THEN [checked |-> FALSE, reason |-> "no_threshold_config"]
        ELSE LET min_val == thresholds[sensor_name].min
                 max_val == thresholds[sensor_name].max
             IN  [value |-> value,
                  checked |-> TRUE,
                  is_anomaly |-> (value < min_val \/ value > max_val),
                  min_threshold |-> min_val,
                  max_threshold |-> max_val,
                  violation |-> IF value < min_val THEN "below_min"
                                ELSE IF value > max_val THEN "above_max"
                                ELSE "None"]

\* as the comparison below, taken on the z-score rounded to 3 decimals:
\* round(|z|, 3) > t iff |z| >= (floor(1000 t) + 1/2) / 1000
AbsExceedsRounded(z, t) ==
    IF t[1] < 0 THEN TRUE
    ELSE LET T == (1000 * t[1]) \div t[2]
             edge == Rat(2 * T + 1, 2000)
         IN  ~RLess(z.sq, RMul(edge, edge))

\* abs(zscore) > self.z_score_threshold, with zscore = sgn * sqrt(sq)
AbsExceeds(z, t) == IF t[1] < 0 THEN TRUE ELSE RLess(RMul(t, t), z.sq)

\* as check_zscore, taking the queried value into the channel's statistics
CheckZscoreLearns(H, sensor_name, value) ==
    LET H1 == GetOrCreateHistory(H, sensor_name)
        history == H1[sensor_name]
        zscore == GetZscore(history, value)
    IN  [hist |-> [H1 EXCEPT ![sensor_name] = AddValue(history, value)],
         result |->
            IF zscore = <<>>
                THEN [checked |-> FALSE,
                      reason |-> "insufficient_history",
                      samples_needed |-> MIN_SAMPLES_FOR_ZSCORE,
                      samples_collected |-> history.count]
                ELSE [checked |-> TRUE,
                      is_anomaly |-> AbsExceeds(zscore[1], z_score_threshold),
                      threshold |-> z_score_threshold]]

\* as check_zscore, reporting the queried value as already collected
CheckZscoreCountsQuery(H, sensor_name, value) ==
    LET H1 == GetOrCreateHistory(H, sensor_name)
        history == H1[sensor_name]
        zscore == GetZscore(history, value)
    IN  [hist |-> H1,
         result |->
            IF zscore = <<>>
                THEN [checked |-> FALSE,
                      reason |-> "insufficient_history",
                      samples_needed |-> MIN_SAMPLES_FOR_ZSCORE,
                      samples_collected |-> history.count + 1]
                ELSE [checked |-> TRUE,
                      is_anomaly |-> AbsExceeds(zscore[1], z_score_threshold),
                      threshold |-> z_score_threshold]]

\* check_zscore on the history map H: the map afterwards (the history is
\* created when missing) and the returned dict.  The reported zscore, mean
\* and std_dev (rounded to 3 decimals for display) are not part of the model.
CheckZscore(H, sensor_name, value) ==
    LET H1 == GetOrCreateHistory(H, sensor_name)
        history == H1[sensor_name]
        zscore == GetZscore(history, value)
    IN  [hist |-> H1,
         result |->
            IF zscore = <<>>
                THEN [checked |-> FALSE,
                      reason |-> "insufficient_history",
                      samples_needed |-> MIN_SAMPLES_FOR_ZSCORE,
                      samples_collected |-> history.count]
                ELSE [checked |-> TRUE,
                      is_anomaly |-> AbsExceeds(zscore[1], z_score_threshold),
                      threshold |-> z_score_threshold]]

\* f"threshold_{threshold_result['violation']}"
ThresholdReason(violation) ==
    CASE violation = "below_min" -> "threshold_below_min"
      [] violation = "above_max" -> "threshold_above_max"
      [] OTHER -> "threshold_None"

\* The reasons list of one reading: the threshold reason, then the z-score
\* reason.  zscore_result is <<>> when z-score mode is off, else <<dict>>.
ReasonsElif(threshold_result, zscore_result) ==
    IF GetFlag(threshold_result, "is_anomaly")
        THEN <<ThresholdReason(threshold_result.violation)>>
        ELSE IF zscore_result # <<>> /\ GetFlag(zscore_result[1], "is_anomaly")
            THEN <<"zscore_exceeded">>
            ELSE <<>>

ReasonsOf(threshold_result, zscore_result) ==
    LET reasons == IF GetFlag(threshold_result, "is_anomaly")
                      THEN <<ThresholdReason(threshold_result.violation)>>
                      ELSE <<>>
    IN  IF zscore_result # <<>> /\ GetFlag(zscore_result[1], "is_anomaly")
            THEN Append(reasons, "zscore_exceeded")
            ELSE reasons

\* The z-score block of the loop: check_zscore, then add_value on the
\* channel's history.  The history map afterwards and the check's result.
ZscoreStepUpdateFirst(H, sensor_name, value) ==
    LET H1 == GetOrCreateHistory(H, sensor_name)
        H2 == [H1 EXCEPT ![sensor_name] = AddValue(H1[sensor_name], value)]
    IN  [hist |-> H2, result |-> CheckZscore(H2, sensor_name, value).result]

ZscoreStep(H, sensor_name, value) ==
    LET zs == CheckZscore(H, sensor_name, value)
        H2 == GetOrCreateHistory(zs.hist, sensor_name)
    IN  [hist |-> [H2 EXCEPT ![sensor_name] = AddValue(H2[sensor_name], value)],
         result |-> zs.result]

\* as AnalyzeReading, keeping the statistics whatever the z-score mode is
AnalyzeReadingKeepsStatistics(acc, reading) ==
    LET sensor_name == reading.name
        value == reading.value[1]
        threshold_result == CheckThreshold(sensor_name, value)
        zs == ZscoreStep(acc.hist, sensor_name, value)
        reasons == ReasonsOf(threshold_result,
                             IF use_zscore THEN <<zs.result>> ELSE <<>>)
        sensor_result ==
            IF use_zscore
                THEN [value |-> value,
                      threshold_result |-> threshold_result,
                      zscore_result |-> zs.result,
                      reasons |-> reasons, unit |-> reading.unit]
                ELSE [value |-> value,
                      threshold_result |-> threshold_result,
                      reasons |-> reasons, unit |-> reading.unit]
        hit == reasons # <<>>
    IN  [trace |-> Append(acc.trace, [name |-> sensor_name,
                                      sensor_result |-> sensor_result]),
         hist |-> zs.hist,
         triggered |-> IF hit THEN Append(acc.triggered, sensor_name)
                              ELSE acc.triggered,
         summary |-> IF hit
                        THEN [c \in DOMAIN acc.summary \cup {sensor_name} |->
                                 IF c = sensor_name THEN sensor_result
                                                    ELSE acc.summary[c]]
                        ELSE acc.summary]

\* One iteration of the loop of analyze over a reading that has a value.
\* acc = [hist, triggered, summary, trace]
AnalyzeReading(acc, reading) ==
    LET sensor_name == reading.name
        value == reading.value[1]
        threshold_result == CheckThreshold(sensor_name, value)
        zs == ZscoreStep(acc.hist, sensor_name, value)
        reasons == ReasonsOf(threshold_result,
                             IF use_zscore THEN <<zs.result>> ELSE <<>>)
        sensor_result ==
            IF use_zscore
                THEN [value |-> value,
                      threshold_result |-> threshold_result,
                      zscore_result |-> zs.result,
                      reasons |-> reasons, unit |-> reading.unit]
                ELSE [value |-> value,
                      threshold_result |-> threshold_result,
                      reasons |-> reasons, unit |-> reading.unit]
        hit == reasons # <<>>
    IN  [trace |-> Append(acc.trace, [name |-> sensor_name,
                                      sensor_result |-> sensor_result]),
         hist |-> IF use_zscore THEN zs.hist ELSE acc.hist,
         triggered |-> IF hit THEN Append(acc.triggered, sensor_name)
                              ELSE acc.triggered,
         summary |-> IF hit
                        THEN [c \in DOMAIN acc.summary \cup {sensor_name} |->
                                 IF c = sensor_name THEN sensor_result
                                                    ELSE acc.summary[c]]
                        ELSE acc.summary]

\* as the loop of analyze, creating a history for a reading without a value
RECURSIVE AnalyzeLoopCreates(_, _)
AnalyzeLoopCreates(acc, readings) ==
    IF readings = <<>> THEN acc
    ELSE IF Head(readings).value = <<>>
        THEN AnalyzeLoopCreates(
                [acc EXCEPT !.hist =
                    GetOrCreateHistory(acc.hist, Head(readings).name)],
                Tail(readings))
        ELSE AnalyzeLoopCreates(AnalyzeReading(acc, Head(readings)),
                                Tail(readings))

\* for sensor_name, reading in readings.items(): ... (None values skipped)
RECURSIVE AnalyzeLoop(_, _)
AnalyzeLoop(acc, readings) ==
    IF readings = <<>> THEN acc
    ELSE IF Head(readings).value = <<>>
        THEN AnalyzeLoop(acc, Tail(readings))
        ELSE AnalyzeLoop(AnalyzeReading(acc, Head(readings)), Tail(readings))

\* sensor_data.get(key)
GetField(sensor_data, key) ==
    IF key \in DOMAIN sensor_data THEN sensor_data[key] ELSE "None"

RECURSIVE Reverse(_)
Reverse(s) == IF s = <<>> THEN <<>> ELSE Append(Reverse(Tail(s)), Head(s))

\* as the result dict, listing the triggered sensors last to first
BuildResultReversed(triggered_sensors, summary, sensor_data) ==
    [summary |-> summary,
     triggered_sensors |-> Reverse(triggered_sensors),
     anomaly_detected |-> Len(triggered_sensors) > 0,
     metadata |-> [timestamp |-> GetField(sensor_data, "timestamp"),
                   sensor_id |-> GetField(sensor_data, "sensor_id"),
                   location |-> GetField(sensor_data, "location"),
                   detection_methods |->
                       IF use_zscore THEN <<"threshold", "zscore">>
                                     ELSE <<"threshold">>]]

\* as the result dict, flagging an anomaly for two or more channels only
BuildResultSeveral(triggered_sensors, summary, sensor_data) ==
    [summary |-> summary,
     triggered_sensors |-> triggered_sensors,
     anomaly_detected |-> Len(triggered_sensors) > 1,
     metadata |-> [timestamp |-> GetField(sensor_data, "timestamp"),
                   sensor_id |-> GetField(sensor_data, "sensor_id"),
                   location |-> GetField(sensor_data, "location"),
                   detection_methods |->
                       IF use_zscore THEN <<"threshold", "zscore">>
                                     ELSE <<"threshold">>]]

\* the result dict built at the end of analyze
BuildResult(triggered_sensors, summary, sensor_data) ==
    [summary |-> summary,
     triggered_sensors |-> triggered_sensors,
     anomaly_detected |-> Len(triggered_sensors) > 0,
     metadata |-> [timestamp |-> GetField(sensor_data, "timestamp"),
                   sensor_id |-> GetField(sensor_data, "sensor_id"),
                   location |-> GetField(sensor_data, "location"),
                   detection_methods |->
                       IF use_zscore THEN <<"threshold", "zscore">>
                                     ELSE <<"threshold">>]]

\* sensor_data.get("readings", {})
Readings(sensor_data) ==
    IF "readings" \in DOMAIN sensor_data THEN sensor_data.readings ELSE <<>>

EmptyDict == [c \in {} |-> 0]

\* The values add_value received, per channel, after running the loop
RECURSIVE AddedAfter(_, _)
AddedAfter(A, readings) ==
    IF readings = <<>> THEN A
    ELSE LET r == Head(readings)
         IN  IF r.value = <<>> \/ ~use_zscore
                THEN AddedAfter(A, Tail(readings))
                ELSE AddedAfter(
                        [c \in DOMAIN A \cup {r.name} |->
                            IF c = r.name
                                THEN Append(IF c \in DOMAIN A THEN A[c] ELSE <<>>,
                                            r.value[1])
                                ELSE A[c]],
                        Tail(readings))

---------------------------------------------------------------------------
(* breach_correlator: severity of a detection result                       *)

\* level -> label (the last label has a dash, written - here)
BREACH_LEVEL_LABELS ==
    [l \in 0..10 |->
        CASE l = 0 -> "All clear"
          [] l = 1 -> "Minor fluctuation"
          [] l = 2 -> "Elevated"
          [] l = 3 -> "Unusual activity"
          [] l = 4 -> "Gate resonance"
          [] l = 5 -> "Dimensional stress"
          [] l = 6 -> "Portal instability"
          [] l = 7 -> "Breach imminent"
          [] l = 8 -> "Upside Down contact"
          [] l = 9 -> "Full breach"
          [] l = 10 -> "Critical - evacuate"]

critical_sensors == {"temperature", "gas"}

\* anomaly_result.get("triggered_sensors", [])
Triggered(result) ==
    IF "triggered_sensors" \in DOMAIN result THEN result.triggered_sensors
    ELSE <<>>

\* as the chain below, a single triggered sensor giving level 1
BaseLevelFromOne(num) ==
    IF num = 0 THEN 0
    ELSE IF num = 1 THEN 1
    ELSE IF num = 2 THEN 4
    ELSE IF num = 3 THEN 6
    ELSE 8

\* the if/elif chain on the number of triggered sensors
BaseLevel(num) ==
    IF num = 0 THEN 0
    ELSE IF num = 1 THEN 2
    ELSE IF num = 2 THEN 4
    ELSE IF num = 3 THEN 6
    ELSE 8

\* as the loop below, adding 1 once if any triggered sensor is critical
BumpCriticalOnce(level, triggered) ==
    IF \E i \in 1..Len(triggered) : triggered[i] \in critical_sensors
        THEN Min(10, level + 1)
        ELSE level

\* for s in triggered: if s in critical_sensors: level = min(10, level + 1)
RECURSIVE BumpCritical(_, _)
BumpCritical(level, triggered) ==
    IF triggered = <<>> THEN level
    ELSE BumpCritical(IF Head(triggered) \in critical_sensors
                         THEN Min(10, level + 1)
                         ELSE level,
                      Tail(triggered))

\* as the chain below, with the first band ending below 3
RecommendationEarly(level) ==
    IF level = 0 THEN "Continue standard monitoring."
    ELSE IF level < 3
        THEN "Increase scan frequency. Watch for additional triggers."
    ELSE IF level <= 6
        THEN "Alert Hawkins Lab security. Prepare containment protocols."
    ELSE IF level <= 8
        THEN "Initiate lockdown procedures. Contact Eleven."
    ELSE "EVACUATE. Full Upside Down breach protocol."

\* the if/elif chain on level
Recommendation(level) ==
    IF level = 0 THEN "Continue standard monitoring."
    ELSE IF level <= 3
        THEN "Increase scan frequency. Watch for additional triggers."
    ELSE IF level <= 6
        THEN "Alert Hawkins Lab security. Prepare containment protocols."
    ELSE IF level <= 8
        THEN "Initiate lockdown procedures. Contact Eleven."
    ELSE "EVACUATE. Full Upside Down breach protocol."

\* the BreachAssessment of a level and a triggered list
Assessment(level, triggered) ==
    [triggered_sensors |-> triggered,
     level |-> level,
     label |-> IF level \in DOMAIN BREACH_LEVEL_LABELS
                  THEN BREACH_LEVEL_LABELS[level] ELSE "Unknown",
     num_triggered |-> Len(triggered),
     is_multi_sensor |-> Len(triggered) >= 2,
     recommendation |-> Recommendation(level)]

\* as compute_breach_level, adding 1 when the detector holds statistics
ComputeBreachLevelCalibrated(result) ==
    LET triggered == Triggered(result)
        level == Min(10, BumpCritical(BaseLevel(Len(triggered)), triggered))
    IN  Assessment(IF DOMAIN sensor_history # {} THEN Min(10, level + 1)
                                                 ELSE level,
                   triggered)

\* compute_breach_level(anomaly_result)
ComputeBreachLevel(result) ==
    LET triggered == Triggered(result)
        level == Min(10, BumpCritical(BaseLevel(Len(triggered)), triggered))
    IN  Assessment(level, triggered)

---------------------------------------------------------------------------
(* Calls on one detector                                                   *)

NoTrace == <<>>

\* AnomalyDetector(thresholds, z_score_threshold, use_zscore, history_size)
Construct(arg, zt, uz, hs) ==
    /\ thresholds_arg = arg
    /\ thresholds = InitThresholds(arg)
    /\ z_score_threshold = zt
    /\ use_zscore = uz
    /\ history_size = hs
    /\ sensor_history = EmptyDict
    /\ added = EmptyDict
    /\ call = [op |-> "init"]
    /\ ret = [none |-> TRUE]
    /\ trace = NoTrace

\* detector.check_threshold(sensor_name, value)
DoCheckThreshold(sensor_name, value) ==
    /\ call' = [value |-> value, sensor_name |-> sensor_name,
                op |-> "check_threshold"]
    /\ ret' = CheckThreshold(sensor_name, value)
    /\ trace' = NoTrace
    /\ UNCHANGED <<config, sensor_history, added, outside>>

\* detector.check_zscore(sensor_name, value)
DoCheckZscore(sensor_name, value) ==
    LET zs == CheckZscore(sensor_history, sensor_name, value)
    IN  /\ call' = [value |-> value, sensor_name |-> sensor_name,
                    op |-> "check_zscore"]
        /\ ret' = zs.result
        /\ sensor_history' = zs.hist
        /\ added' = [c \in DOMAIN zs.hist |->
                        IF c \in DOMAIN added THEN added[c] ELSE <<>>]
        /\ trace' = NoTrace
        /\ UNCHANGED <<config, outside>>

\* How many values the channel has received since its history was created
Seen(A, c) == IF c \in DOMAIN A THEN Len(A[c]) ELSE 0

\* detector.analyze(sensor_data); limit caps the values fed to one channel
DoAnalyze(sensor_data, limit) ==
    LET readings == Readings(sensor_data)
        acc0 == [trace |-> <<>>, hist |-> sensor_history,
                 triggered |-> <<>>, summary |-> EmptyDict]
        acc == AnalyzeLoop(acc0, readings)
        A == AddedAfter(added, readings)
    IN  /\ \A c \in DOMAIN A : Len(A[c]) <= limit
        /\ call' = [sensor_data |-> sensor_data, op |-> "analyze"]
        /\ ret' = BuildResult(acc.triggered, acc.summary, sensor_data)
        /\ sensor_history' = acc.hist
        /\ added' = A
        /\ trace' = acc.trace
        /\ UNCHANGED <<config, outside>>

\* `if sensor_name:` holds for a name other than None and the empty string
Truthy(arg) == arg # <<>> /\ arg[1] # ""

\* as reset_history, emptying the buffers and leaving the counters
DoResetHistoryKeepsCount(arg) ==
    /\ call' = [sensor_name |-> arg, op |-> "reset_history"]
    /\ ret' = [none |-> TRUE]
    /\ trace' = NoTrace
    /\ sensor_history' =
          [c \in DOMAIN sensor_history |->
              IF ~Truthy(arg) \/ arg[1] = c
                  THEN [sensor_history[c] EXCEPT !.values = <<>>]
                  ELSE sensor_history[c]]
    /\ added' = [c \in DOMAIN added |->
                    IF ~Truthy(arg) \/ arg[1] = c THEN <<>> ELSE added[c]]
    /\ UNCHANGED <<config, outside>>

\* detector.reset_history(sensor_name); arg is <<>> for None, else <<name>>
DoResetHistory(arg) ==
    /\ call' = [sensor_name |-> arg, op |-> "reset_history"]
    /\ ret' = [none |-> TRUE]
    /\ trace' = NoTrace
    /\ IF Truthy(arg)
          THEN IF arg[1] \in DOMAIN sensor_history
                  THEN /\ sensor_history' =
                            [c \in DOMAIN sensor_history \ {arg[1]} |->
                                sensor_history[c]]
                       /\ added' = [c \in DOMAIN added \ {arg[1]} |-> added[c]]
                  ELSE UNCHANGED <<sensor_history, added>>
          ELSE /\ sensor_history' = EmptyDict
               /\ added' = EmptyDict
    /\ UNCHANGED <<config, outside>>

\* breach = compute_breach_level(result), the caller keeping both
DoComputeBreachLevel(result) ==
    /\ anomaly_result' = result
    /\ breach' = <<ComputeBreachLevel(result)>>
    /\ UNCHANGED <<config, sensor_history, added, call, ret, trace, cycle,
                   main_loop>>

\* the rows the dashboard keeps
max_history == 50

\* init_session_state: no rows, no reading, no sticky alert
EmptySession ==
    [history |-> <<>>, max_history |-> max_history,
     last_reading |-> <<>>, sticky_alert |-> <<>>]

\* range(int(INTERVAL_SECONDS * 10)) for the default interval of 5.0
INTERVAL_ROUNDS == 50

\* main about to test `while not stop_flag`, with n rounds of wait per cycle
AtTest(n) == [n |-> n, i |-> 0, pc |-> "test"]

\* before the first cycle
NoCycle ==
    /\ explanation = <<>>
    /\ collab = <<>>
    /\ sent = <<>>
    /\ session = EmptySession
    /\ stop_flag = <<>>
    /\ loop = AtTest(INTERVAL_ROUNDS)

\* the detector used as a library, without main.py or the dashboard
NoCaller ==
    /\ anomaly_result = <<>>
    /\ breach = <<>>
    /\ driver = "none"
    /\ NoCycle

---------------------------------------------------------------------------
(* The cycles: run_pipeline of main.py and take_reading of the dashboard.  *)
(* A collaborator (the AI analyzer, the metrics client, the voice module)  *)
(* is outside the program; a cycle sees only what a call into it does,     *)
(* which the scenario of the cycle decides:                                 *)
(*   bedrock  "absent" (no analyzer object), "raises", "none", "empty"     *)
(*            (an empty text) or "text";                                     *)
(*   datadog  "absent" (no client), "mock" (no API keys), "ok" or "error"  *)
(*            (the service call fails);                                      *)
(*   voice    "off" (the dashboard's checkbox), "played", "silent" (no     *)
(*            key, or the service gave nothing) or "raises".                *)

\* what a call does: it returns a value or raises an exception
Returned(v) == [value |-> v, raised |-> FALSE]

Raises == [value |-> <<>>, raised |-> TRUE]

\* try: the call; except Exception: the handler's value
Except(outcome, handled) ==
    IF outcome.raised THEN Returned(handled) ELSE outcome

\* sensor_data.get(key, default)
GetOr(sensor_data, key, default) ==
    IF key \in DOMAIN sensor_data THEN sensor_data[key] ELSE default

\* one AnomalyData per entry of the summary, in the order the entries were
\* inserted, which is the order of triggered_sensors
AnomalyDataList(result, sensor_data) ==
    LET t == result.triggered_sensors
    IN  [i \in 1..Len(t) |->
            [value |-> result.summary[t[i]].value,
             unit |-> result.summary[t[i]].unit,
             sensor_id |-> GetOr(sensor_data, "sensor_id", "LAB-001"),
             location |-> GetOr(sensor_data, "location", "main_lab"),
             sensor_type |-> t[i],
             severity |-> IF Len(t) >= 2 THEN "CRITICAL" ELSE "WARNING"]]

\* the sensor types get_fallback_explanation has a template for
templates == {"temperature", "humidity", "pressure", "co2", "vibration",
              "gas", "cpu_usage"}

\* the templated text: which template, filled with which fields
GetFallbackExplanation(anomaly) ==
    LET known == anomaly.sensor_type \in templates
    IN  [value |-> anomaly.value,
         unit |-> anomaly.unit,
         sensor_id |-> IF known THEN "" ELSE anomaly.sensor_id,
         location |-> anomaly.location,
         source |-> "fallback",
         template |-> IF known THEN anomaly.sensor_type ELSE "generic"]

\* bedrock.explain_anomaly(anomaly), for an analyzer that exists
ExplainAnomaly(bedrock, anomaly) ==
    CASE bedrock = "raises" -> Raises
      [] bedrock = "none"   -> Returned(<<>>)
      [] bedrock = "empty"  -> Returned(<<[source |-> "bedrock", text |-> ""]>>)
      [] bedrock = "text"   ->
            Returned(<<[source |-> "bedrock", text |-> "analysis"]>>)

\* `not explanation`: None or the empty string
Falsy(text) == text = <<>> \/ (text[1].source = "bedrock" /\ text[1].text = "")

\* run_pipeline taking whatever the analyzer returned
ExplainCycleUnchecked(bedrock, first) ==
    IF bedrock # "absent"
        THEN Except(ExplainAnomaly(bedrock, first), <<>>)
        ELSE Returned(<<GetFallbackExplanation(first)>>)

\* run_pipeline, the explanation of the first anomaly
ExplainCycle(bedrock, first) ==
    IF bedrock # "absent"
        THEN LET e == Except(ExplainAnomaly(bedrock, first), <<>>)
             IN  IF Falsy(e.value)
                    THEN Returned(<<GetFallbackExplanation(first)>>)
                    ELSE e
        ELSE Returned(<<GetFallbackExplanation(first)>>)

\* take_reading, the explanation of the first anomaly
ExplainReading(bedrock, first) ==
    IF bedrock # "absent"
        THEN LET e == Except(ExplainAnomaly(bedrock, first),
                             <<GetFallbackExplanation(first)>>)
             IN  IF Falsy(e.value)
                    THEN Returned(<<GetFallbackExplanation(first)>>)
                    ELSE e
        ELSE Returned(<<GetFallbackExplanation(first)>>)

\* dd_client._is_configured()
IsConfigured(datadog) == datadog \in {"ok", "error"}

\* what became of something handed to the metrics client
Delivery(datadog) ==
    CASE datadog = "mock"  -> "logged"
      [] datadog = "ok"    -> "delivered"
      [] datadog = "error" -> "failed"

Event(kind, datadog) == [kind |-> kind, delivery |-> Delivery(datadog)]

\* send_sensor_metrics letting the failure of the service out
SendSensorMetricsUnguarded(datadog) ==
    CASE datadog = "mock"  -> Returned(TRUE)
      [] datadog = "ok"    -> Returned(TRUE)
      [] datadog = "error" -> Raises

\* dd_client.send_sensor_metrics(sensor_data)
SendSensorMetrics(datadog) ==
    CASE datadog = "mock"  -> Returned(TRUE)
      [] datadog = "ok"    -> Returned(TRUE)
      [] datadog = "error" -> Except(Raises, FALSE)

\* dd_client.send_anomaly_alert(anomaly_result, sensor_data)
SendAnomalyAlert(datadog, result) ==
    IF ~result.anomaly_detected THEN Returned(FALSE)
    ELSE CASE datadog = "mock"  -> Returned(TRUE)
           [] datadog = "ok"    -> Returned(TRUE)
           [] datadog = "error" -> Except(Raises, FALSE)

\* _send_breach_metric(dd_client, breach, sensor_data), when configured
SendBreachMetric(datadog) ==
    CASE datadog = "ok"    -> Returned(<<>>)
      [] datadog = "error" -> Except(Raises, <<>>)

\* the calls of a stage in order, up to the first that raises
RECURSIVE RunSteps(_, _)
RunSteps(steps, done) ==
    IF steps = <<>> THEN [sent |-> done, raised |-> FALSE]
    ELSE IF Head(steps).outcome.raised
        THEN [sent |-> done, raised |-> TRUE]
        ELSE RunSteps(Tail(steps), done \o Head(steps).event)

Step(outcome, event) == [outcome |-> outcome, event |-> event]

\* run_pipeline, the Datadog part
DatadogStage(datadog, result) ==
    IF datadog = "absent" THEN [sent |-> <<>>, raised |-> FALSE]
    ELSE LET anomaly == result.anomaly_detected
             metrics == <<Step(SendSensorMetrics(datadog),
                               <<Event("metrics", datadog)>>)>>
             alert == IF anomaly
                         THEN <<Step(SendAnomalyAlert(datadog, result),
                                     <<Event("alert", datadog)>>)>>
                         ELSE <<>>
             level == IF IsConfigured(datadog)
                         THEN <<Step(SendBreachMetric(datadog),
                                     <<Event("breach_level", datadog)>>)>>
                         ELSE <<>>
             titled == IF anomaly /\ IsConfigured(datadog)
                          THEN <<Step(SendAnomalyAlert(datadog, result),
                                      <<Event("alert", datadog)>>)>>
                          ELSE <<>>
         IN  RunSteps(metrics \o alert \o level \o titled, <<>>)

\* speak_alert(voice_text), reached through an import that may fail
SpeakAlert(voice) ==
    CASE voice = "played" -> Returned(TRUE)
      [] voice = "silent" -> Returned(FALSE)
      [] voice = "raises" -> Raises

\* generate_speech(voice_text) and the reading of the file it wrote
GenerateSpeech(voice) ==
    CASE voice = "played" -> Returned(<<"audio">>)
      [] voice = "silent" -> Returned(<<>>)
      [] voice = "raises" -> Raises

\* run_pipeline, from the explanation on: [raised, explanation]
ExplainStage(bedrock, voice, result, sensor_data) ==
    LET anomaly_list == AnomalyDataList(result, sensor_data)
    IN  IF result.anomaly_detected /\ anomaly_list # <<>>
            THEN LET e == ExplainCycle(bedrock, anomaly_list[1])
                     v == Except(SpeakAlert(voice), FALSE)
                 IN  [explanation |-> IF e.raised THEN <<>> ELSE e.value,
                      raised |-> e.raised \/ v.raised]
            ELSE [explanation |-> <<>>, raised |-> FALSE]

\* run_pipeline(detector, dd_client, bedrock_analyzer, ...) on the sample
\* the generator gave; each local of the function is bound once, to the
\* value it was assigned.  The flag and the position of the loop are the
\* caller's.
RunPipeline(sensor_data, scenario, limit) ==
    LET readings == Readings(sensor_data)
        acc0 == [trace |-> <<>>, hist |-> sensor_history,
                 triggered |-> <<>>, summary |-> EmptyDict]
        A == AddedAfter(added, readings)
    IN  \E acc \in {AnalyzeLoop(acc0, readings)} :
        \E result \in {BuildResult(acc.triggered, acc.summary, sensor_data)} :
        \E dd \in {DatadogStage(scenario.datadog, result)} :
        \E ex \in {IF dd.raised
                      THEN [explanation |-> <<>>, raised |-> TRUE]
                      ELSE ExplainStage(scenario.bedrock, scenario.voice,
                                        result, sensor_data)} :
        /\ driver = "cli"
        /\ \A c \in DOMAIN A : Len(A[c]) <= limit
        /\ call' = [sensor_data |-> sensor_data, op |-> "run_pipeline"]
        /\ ret' = [none |-> TRUE]
        /\ sensor_history' = acc.hist
        /\ added' = A
        /\ trace' = acc.trace
        /\ anomaly_result' = result
        /\ breach' = <<ComputeBreachLevel(result)>>
        /\ explanation' = ex.explanation
        /\ sent' = dd.sent
        /\ collab' = <<scenario>>
        /\ driver' = IF ex.raised THEN "crashed" ELSE driver
        /\ UNCHANGED <<config, session>>

\* the signals main is sent
MaxSignals == 2

\* _handle, the handler of SIGINT and SIGTERM: stop_flag.append(True)
Stop ==
    /\ driver = "cli"
    /\ Len(stop_flag) < MaxSignals
    /\ stop_flag' = Append(stop_flag, TRUE)
    /\ UNCHANGED <<config, sensor_history, added, call, ret, trace,
                   anomaly_result, breach, cycle, loop>>

\* `while not stop_flag:` entering the loop body or leaving the loop; limit
\* caps the iterations
MainTest(limit) ==
    /\ driver = "cli"
    /\ loop.pc = "test"
    /\ IF stop_flag = <<>>
          THEN /\ \A c \in DOMAIN added : Len(added[c]) < limit
               /\ loop' = [loop EXCEPT !.pc = "cycle"]
          ELSE loop' = [loop EXCEPT !.pc = "exit"]
    /\ UNCHANGED <<config, sensor_history, added, call, ret, trace,
                   anomaly_result, breach, cycle, stop_flag>>

\* the call of run_pipeline in the loop body; an exception leaves main
MainCycle(sensor_data, scenario, limit) ==
    /\ loop.pc = "cycle"
    /\ RunPipeline(sensor_data, scenario, limit)
    /\ loop' = [loop EXCEPT !.pc = IF driver' = "crashed" THEN "exit"
                                                          ELSE "sleep",
                            !.i = 0]
    /\ UNCHANGED stop_flag

\* as the wait below, never looking at the flag
MainSleepThrough ==
    /\ driver = "cli"
    /\ loop.pc = "sleep"
    /\ IF loop.i < loop.n
          THEN loop' = [loop EXCEPT !.i = @ + 1]
          ELSE loop' = [loop EXCEPT !.pc = "test"]
    /\ UNCHANGED <<config, sensor_history, added, call, ret, trace,
                   anomaly_result, breach, cycle, stop_flag>>

\* one round of `for _ in range(...): if stop_flag: break; time.sleep(0.1)`
MainSleep ==
    /\ driver = "cli"
    /\ loop.pc = "sleep"
    /\ IF loop.i < loop.n /\ stop_flag = <<>>
          THEN loop' = [loop EXCEPT !.i = @ + 1]
          ELSE loop' = [loop EXCEPT !.pc = "test"]
    /\ UNCHANGED <<config, sensor_history, added, call, ret, trace,
                   anomaly_result, breach, cycle, stop_flag>>

\* data["readings"][c]["value"]
ValueOf(sensor_data, c) ==
    LET readings == sensor_data.readings
    IN  readings[CHOOSE i \in 1..Len(readings) : readings[i].name = c].value

\* the row take_reading appends to the history of the session
Row(sensor_data, result, level) ==
    [temperature |-> ValueOf(sensor_data, "temperature"),
     gas |-> ValueOf(sensor_data, "gas"),
     vibration |-> ValueOf(sensor_data, "vibration"),
     cpu_usage |-> ValueOf(sensor_data, "cpu_usage"),
     timestamp |-> GetOr(sensor_data, "timestamp", ""),
     anomaly |-> result.anomaly_detected,
     breach_level |-> level]

\* history.append(row), dropping the oldest row beyond max_history
Appended(history, row, cap) ==
    IF Len(history) + 1 > cap THEN Tail(Append(history, row))
    ELSE Append(history, row)

\* as the sticky alert of take_reading, taken over by every anomalous reading
StickyAfterLatest(sticky_alert, result, alert) ==
    IF result.anomaly_detected THEN <<alert>> ELSE sticky_alert

\* the sticky alert after a reading: set by an anomalous one when there is none
StickyAfter(sticky_alert, result, alert) ==
    IF result.anomaly_detected /\ sticky_alert = <<>>
        THEN <<alert>>
        ELSE sticky_alert

\* take_reading(sensor_id, location, voice_alert) of the dashboard
TakeReading(sensor_data, scenario, limit) ==
    LET readings == Readings(sensor_data)
        acc0 == [trace |-> <<>>, hist |-> sensor_history,
                 triggered |-> <<>>, summary |-> EmptyDict]
        A == AddedAfter(added, readings)
    IN  \E acc \in {AnalyzeLoop(acc0, readings)} :
        \E result \in {BuildResult(acc.triggered, acc.summary, sensor_data)} :
        \E assessment \in {ComputeBreachLevel(result)} :
        \E anomaly_list \in {AnomalyDataList(result, sensor_data)} :
        \E e \in {IF result.anomaly_detected /\ anomaly_list # <<>>
                     THEN ExplainReading(scenario.bedrock, anomaly_list[1])
                     ELSE Returned(<<>>)} :
        LET ai_text == e.value
            audio_b64 ==
                IF scenario.voice # "off" /\ ~Falsy(ai_text)
                    THEN Except(GenerateSpeech(scenario.voice), <<>>).value
                    ELSE <<>>
            reading == [breach |-> assessment, result |-> result,
                        ai_text |-> ai_text, data |-> sensor_data]
        IN
        /\ driver = "dashboard"
        /\ \A c \in DOMAIN A : Len(A[c]) <= limit
        /\ call' = [sensor_data |-> sensor_data, op |-> "take_reading"]
        /\ ret' = reading
        /\ sensor_history' = acc.hist
        /\ added' = A
        /\ trace' = acc.trace
        /\ anomaly_result' = result
        /\ breach' = <<assessment>>
        /\ explanation' = IF e.raised THEN <<>> ELSE ai_text
        /\ sent' = <<>>
        /\ collab' = <<scenario>>
        /\ driver' = IF e.raised THEN "crashed" ELSE driver
        /\ session' =
            IF e.raised
                THEN [session EXCEPT
                        !.history = Appended(@, Row(sensor_data, result,
                                                    assessment.level),
                                             session.max_history)]
                ELSE [history |-> Appended(session.history,
                                           Row(sensor_data, result,
                                               assessment.level),
                                           session.max_history),
                      max_history |-> session.max_history,
                      last_reading |-> <<reading>>,
                      sticky_alert |->
                          StickyAfter(session.sticky_alert, result,
                                      [breach |-> assessment,
                                       result |-> result,
                                       ai_text |-> ai_text,
                                       audio_b64 |-> audio_b64,
                                       data |-> sensor_data])]
        /\ UNCHANGED <<config, main_loop>>

\* the Acknowledge button under the sticky alert
Acknowledge ==
    /\ driver = "dashboard"
    /\ session.sticky_alert # <<>>
    /\ session' = [session EXCEPT !.sticky_alert = <<>>]
    /\ UNCHANGED <<config, sensor_history, added, call, ret, trace,
                   anomaly_result, breach, explanation, sent, collab, driver,
                   main_loop>>

\* get_fallback_explanation(anomaly) called on its own
DoGetFallbackExplanation(anomaly) ==
    /\ call' = [op |-> "get_fallback_explanation", anomaly |-> anomaly]
    /\ ret' = GetFallbackExplanation(anomaly)
    /\ trace' = NoTrace
    /\ UNCHANGED <<config, sensor_history, added, outside>>

---------------------------------------------------------------------------
(* Inputs                                                                  *)

Unit(c) == IF c = "temperature" THEN "C" ELSE "%"

Reading(c, v) == [value |-> v, name |-> c, unit |-> Unit(c)]

Sample(readings) ==
    [readings |-> readings,
     timestamp |-> "t", sensor_id |-> "LAB-001", location |-> "lab"]

\* a table that configures humidity only
CustomThresholds == [c \in {"humidity"} |-> [min |-> 30, max |-> 60]]

ThresholdArgs == {<<>>, <<EmptyDict>>, <<CustomThresholds>>}

---------------------------------------------------------------------------
(* Spec: two channels, every call, a few readings per channel              *)

MaxAdded == 2

Channels == {"temperature", "humidity"}

\* values around the bounds of the channel in THRESHOLDS / CustomThresholds
ProbeValues(c) == IF c = "temperature" THEN {14, 15, 32, 33} ELSE {29, 30, 60, 61}

SampleValues(c) == IF c = "temperature" THEN {14, 23} ELSE {40, 70}

\* a present value of the channel, or None
OptValues(c) == {<<v>> : v \in SampleValues(c)} \cup {<<>>}

Singles(c) == {Sample(<<Reading(c, v)>>) : v \in OptValues(c)}

Pairs(c1, c2) ==
    {Sample(<<Reading(c1, v1), Reading(c2, v2)>>) :
        v1 \in OptValues(c1), v2 \in OptValues(c2)}

\* a sample without readings, an empty one, one reading, two readings in
\* either order
Samples ==
    {[sensor_id |-> "LAB-001"], Sample(<<>>)}
    \cup UNION {Singles(c) : c \in Channels}
    \cup UNION {Pairs(p[1], p[2]) :
                    p \in {q \in Channels \X Channels : q[1] # q[2]}}

\* None, every channel fed, and the empty name
ResetArgs == {<<>>, <<"">>} \cup {<<c>> : c \in Channels}

Init ==
    /\ \E arg \in ThresholdArgs, uz \in BOOLEAN :
          Construct(arg, Z_SCORE_THRESHOLD, uz, DEFAULT_HISTORY_SIZE)
    /\ NoCaller

Next ==
    \/ \E c \in Channels : \E v \in ProbeValues(c) : DoCheckThreshold(c, v)
    \/ \E c \in Channels : \E v \in SampleValues(c) : DoCheckZscore(c, v)
    \/ \E s \in Samples : DoAnalyze(s, MaxAdded)
    \/ \E a \in ResetArgs : DoResetHistory(a)

Spec == Init /\ [][Next]_vars

---------------------------------------------------------------------------
(* SpecCalib: one channel fed past the minimum-sample floor                *)

MaxCalib == 11

CalibChannel == "temperature"

CalibValues == {23, 33}

\* a table under which 23 is below the minimum and 33 is in range
CalibThresholds == [c \in {"temperature"} |-> [min |-> 30, max |-> 40]]

\* constructor arguments: thresholds, z_score_threshold, history_size; the
\* thresholds 3 and 3.162 are met by a z-score of exactly 3 and of sqrt(10)
CalibConfigs ==
    {<<<<>>, Z_SCORE_THRESHOLD, DEFAULT_HISTORY_SIZE>>,
     <<<<>>, <<3, 1>>, DEFAULT_HISTORY_SIZE>>,
     <<<<>>, <<1581, 500>>, DEFAULT_HISTORY_SIZE>>,
     <<<<>>, Z_SCORE_THRESHOLD, 2>>,
     <<<<CalibThresholds>>, Z_SCORE_THRESHOLD, DEFAULT_HISTORY_SIZE>>}

InitCalib ==
    /\ \E k \in CalibConfigs : Construct(k[1], k[2], TRUE, k[3])
    /\ NoCaller

NextCalib ==
    \/ \E v \in CalibValues :
          DoAnalyze(Sample(<<Reading(CalibChannel, <<v>>)>>), MaxCalib)
    \/ \E v \in CalibValues : DoCheckZscore(CalibChannel, v)
    \/ \E a \in {<<>>, <<CalibChannel>>} : DoResetHistory(a)

SpecCalib == InitCalib /\ [][NextCalib]_vars

---------------------------------------------------------------------------
(* SpecWindow: one channel fed a fixed sequence past the window capacity   *)

MaxWindow == 102

Feeds == {"ramp", "flat", "step"}

\* the i-th value of the feed: 1, 2, 3, ... / 23, 23, ... / 24, 23, 23, ...
FeedValue(f, i) ==
    CASE f = "ramp" -> i
      [] f = "flat" -> 23
      [] f = "step" -> IF i = 1 THEN 24 ELSE 23

Follows(f, s) == \A i \in 1..Len(s) : s[i] = FeedValue(f, i)

WindowSizes == {2, DEFAULT_HISTORY_SIZE - 1, DEFAULT_HISTORY_SIZE,
                DEFAULT_HISTORY_SIZE + 1}

InitWindow ==
    /\ \E hs \in WindowSizes : Construct(<<>>, Z_SCORE_THRESHOLD, TRUE, hs)
    /\ NoCaller

\* the next value of a feed the values so far follow
NextWindow ==
    \/ \E f \in Feeds :
          LET s == IF CalibChannel \in DOMAIN added THEN added[CalibChannel]
                   ELSE <<>>
          IN  /\ Follows(f, s)
              /\ DoAnalyze(Sample(<<Reading(CalibChannel,
                                            <<FeedValue(f, Len(s) + 1)>>)>>),
                           MaxWindow)
    \/ \E v \in {23, 24} : DoCheckZscore(CalibChannel, v)

SpecWindow == InitWindow /\ [][NextWindow]_vars

---------------------------------------------------------------------------
(* SpecBreach: the breach level of any triggered list, between calls on    *)
(* the detector                                                            *)

MaxTriggered == 4

BreachNames == {"temperature", "gas", "vibration", "cpu_usage"}

\* every list of at most MaxTriggered names, repeated names included
TriggeredLists == UNION {[1..n -> BreachNames] : n \in 0..MaxTriggered}

\* detection results as analyze shapes them, and one without the list
BreachInputs ==
    {[triggered_sensors |-> t, anomaly_detected |-> Len(t) > 0] :
        t \in TriggeredLists}
    \cup {[anomaly_detected |-> FALSE]}

\* all in range; temperature above its maximum; temperature and gas above
BreachSamples ==
    {Sample(<<Reading("temperature", <<p[1]>>), Reading("gas", <<p[2]>>)>>) :
        p \in {<<23, 5>>, <<33, 5>>, <<33, 80>>}}

\* the results the caller can pass: the one it holds, or the one analyze
\* has just returned
Held == (IF anomaly_result = <<>> THEN {} ELSE {anomaly_result})
            \cup (IF call.op = "analyze" THEN {ret} ELSE {})

InitBreach ==
    /\ Construct(<<>>, Z_SCORE_THRESHOLD, TRUE, DEFAULT_HISTORY_SIZE)
    /\ anomaly_result \in BreachInputs
    /\ breach = <<>>
    /\ driver = "none"
    /\ NoCycle

NextBreach ==
    \/ \E r \in Held : DoComputeBreachLevel(r)
    \/ \E s \in BreachSamples : DoAnalyze(s, MaxAdded)
    \/ DoResetHistory(<<>>)

SpecBreach == InitBreach /\ [][NextBreach]_vars

---------------------------------------------------------------------------
(* SpecPipeline: the detector of main (use_zscore=True) or of the          *)
(* dashboard session driven by cycles, each on a sample of the four        *)
(* channels the generator yields and under one scenario of the             *)
(* collaborators; without a driver, get_fallback_explanation on its own.   *)

\* a sample as generate_sensor_data builds it: all four channels, in order
GeneratedSample(t, g, v, u) ==
    Sample(<<Reading("temperature", <<t>>), Reading("gas", <<g>>),
             Reading("vibration", <<v>>), Reading("cpu_usage", <<u>>)>>)

\* all normal; temperature out of range; gas and cpu_usage out of range
GeneratedSamples ==
    {GeneratedSample(23, 12, 1, 45), GeneratedSample(40, 12, 1, 45),
     GeneratedSample(23, 200, 1, 97)}

Scenario(b, d, v) == [bedrock |-> b, datadog |-> d, voice |-> v]

\* main: every collaborator healthy, one of them deviating, or all failing
CliScenarios ==
    {Scenario(b, "ok", "played") :
        b \in {"absent", "raises", "none", "empty", "text"}}
    \cup {Scenario("text", d, "played") : d \in {"absent", "mock", "error"}}
    \cup {Scenario("text", "ok", v) : v \in {"silent", "raises"}}
    \cup {Scenario("raises", "error", "raises")}

\* the dashboard has no metrics client
DashboardScenarios ==
    {Scenario(b, "absent", "played") :
        b \in {"absent", "raises", "none", "empty", "text"}}
    \cup {Scenario("text", "absent", v) : v \in {"off", "silent", "raises"}}
    \cup {Scenario("raises", "absent", "raises")}

\* anomalies of channels with and without a template
FallbackInputs ==
    {[value |-> 40, unit |-> "C", sensor_id |-> "LAB-001",
      location |-> "lab", sensor_type |-> c, severity |-> "WARNING"] :
        c \in templates \cup {"radiation", ""}}

InitPipeline ==
    /\ Construct(<<>>, Z_SCORE_THRESHOLD, TRUE, DEFAULT_HISTORY_SIZE)
    /\ anomaly_result = <<>>
    /\ breach = <<>>
    /\ driver \in {"none", "cli", "dashboard"}
    /\ NoCycle

NextPipeline ==
    \/ \E s \in GeneratedSamples, k \in CliScenarios :
            RunPipeline(s, k, MaxAdded) /\ UNCHANGED main_loop
    \/ Stop
    \/ \E s \in GeneratedSamples, k \in DashboardScenarios :
            TakeReading(s, k, MaxAdded)
    \/ Acknowledge
    \/ \E a \in FallbackInputs : driver = "none" /\ DoGetFallbackExplanation(a)

SpecPipeline == InitPipeline /\ [][NextPipeline]_vars

---------------------------------------------------------------------------
(* SpecShutdown: main from its first test of the flag, with signals        *)
(* arriving at any point.  The steps of main are taken as long as they can *)
(* be: the thread runs, time.sleep returns, and so does every call of a    *)
(* collaborator.  Nothing makes a signal arrive.                            *)

\* every collaborator healthy, or every one failing
ShutdownScenarios ==
    {Scenario("text", "ok", "played"), Scenario("raises", "error", "raises")}

\* no wait at all (an interval below 0.1 s), or the default one
IntervalRounds == {0, INTERVAL_ROUNDS}

InitShutdown ==
    /\ Construct(<<>>, Z_SCORE_THRESHOLD, TRUE, DEFAULT_HISTORY_SIZE)
    /\ anomaly_result = <<>>
    /\ breach = <<>>
    /\ driver = "cli"
    /\ explanation = <<>>
    /\ collab = <<>>
    /\ sent = <<>>
    /\ session = EmptySession
    /\ stop_flag = <<>>
    /\ \E n \in IntervalRounds : loop = AtTest(n)

MainStep ==
    \/ MainTest(MaxAdded)
    \/ \E s \in GeneratedSamples, k \in ShutdownScenarios :
            MainCycle(s, k, MaxAdded)
    \/ MainSleep

NextShutdown == MainStep \/ Stop

\* main is the only thread: its test of the flag and each 0.1 s round of
\* its wait are taken when they are due, and a call of run_pipeline returns
\* (every stage is a bounded computation or a guarded client call)
CycleReturns == []<>(loop.pc # "cycle")

MainRuns ==
    /\ WF_vars(MainTest(MaxAdded))
    /\ WF_vars(MainSleep)
    /\ CycleReturns

SpecShutdown == InitShutdown /\ [][NextShutdown]_vars /\ MainRuns

---------------------------------------------------------------------------
(* SpecThresholdOnly: a detector built with use_zscore=False (as the one   *)
(* detect_anomalies builds by default), under every threshold table        *)

InitThresholdOnly ==
    /\ \E arg \in ThresholdArgs :
          Construct(arg, Z_SCORE_THRESHOLD, FALSE, DEFAULT_HISTORY_SIZE)
    /\ NoCaller

NextThresholdOnly ==
    \/ \E s \in Samples : DoAnalyze(s, MaxAdded)
    \/ \E c \in Channels : \E v \in ProbeValues(c) : DoCheckThreshold(c, v)
    \/ \E a \in ResetArgs : DoResetHistory(a)

SpecThresholdOnly == InitThresholdOnly /\ [][NextThresholdOnly]_vars

---------------------------------------------------------------------------
(* Claims                                                                  *)

InSeq(x, s) == \E i \in 1..Len(s) : s[i] = x

\* C1: for a channel with a configured threshold, check_threshold returns
\* checked = true, is_anomaly iff value < min or value > max, violation
\* below_min when value < min, above_max when value > max, none otherwise;
\* a value equal to min or to max is not anomalous.
C1_ThresholdContract ==
    (call.op = "check_threshold" /\ call.sensor_name \in DOMAIN thresholds) =>
        LET b == thresholds[call.sensor_name]
            v == call.value
        IN  /\ ret.checked = TRUE
            /\ ret.is_anomaly <=> (v < b.min \/ v > b.max)
            /\ v < b.min => ret.violation = "below_min"
            /\ v > b.max => ret.violation = "above_max"
            /\ (v >= b.min /\ v <= b.max) => ret.violation = "None"
            /\ (v = b.min \/ v = b.max) => ~ret.is_anomaly

\* min = 15, max = 32, value = 33 gives above_max
C1_Witness ==
    /\ call.op = "check_threshold"
    /\ call.sensor_name = "temperature"
    /\ call.value = 33
    /\ thresholds["temperature"] = [min |-> 15, max |-> 32]
    /\ ret.checked = TRUE
    /\ ret.is_anomaly = TRUE
    /\ ret.violation = "above_max"

\* C2: for every table T supplied at construction (the empty one included),
\* check_threshold(c, v) returns checked = false with reason
\* no_threshold_config iff c is not in T, and the table the detector uses is
\* exactly the one supplied.
C2_SuppliedTableUsed ==
    (call.op = "check_threshold" /\ thresholds_arg # <<>>) =>
        /\ thresholds = thresholds_arg[1]
        /\ (ret = [checked |-> FALSE, reason |-> "no_threshold_config"])
               <=> (call.sensor_name \notin DOMAIN thresholds_arg[1])

\* the history a channel's check sees: its stored one, or a fresh one
HistoryOf(H, c) == IF c \in DOMAIN H THEN H[c] ELSE SensorHistory(history_size)

\* C3: in an analyze call with z-score mode enabled, for each channel with a
\* value, the z-score result is the one check_zscore gives on the channel's
\* statistics as they were before the call, and after the call the channel's
\* statistics are those statistics with the value added.
C3_CheckBeforeUpdate ==
    [][(call'.op = "analyze" /\ use_zscore) =>
        \A i \in 1..Len(trace') :
            LET c == trace'[i].name
                r == trace'[i].sensor_result
                pre == HistoryOf(sensor_history, c)
                H == [x \in {c} |-> pre]
            IN  /\ r.zscore_result = CheckZscore(H, c, r.value).result
                /\ sensor_history'[c] = AddValue(pre, r.value)]_vars

\* 33 as the 11th reading, after nine 23s and one 33: judged against mean 24
\* and standard deviation 3 (z = 3, flagged); with the value counted in first
\* the mean would be 273/11 and z below 2.5
C3_Witness ==
    /\ call.op = "analyze"
    /\ thresholds_arg = <<>>
    /\ z_score_threshold = Z_SCORE_THRESHOLD
    /\ history_size = DEFAULT_HISTORY_SIZE
    /\ CalibChannel \in DOMAIN added
    /\ added[CalibChannel] = <<23, 23, 23, 23, 23, 23, 23, 23, 23, 33, 33>>
    /\ trace[1].sensor_result.zscore_result.checked = TRUE
    /\ trace[1].sensor_result.zscore_result.is_anomaly = TRUE
    /\ sensor_history[CalibChannel].count = MIN_SAMPLES_FOR_ZSCORE + 1
    /\ sensor_history[CalibChannel].mean = <<273, 11>>

\* all the values of s are the same
AllEqual(s) == \A i \in 1..Len(s) : s[i] = s[1]

\* C4 as stated: the k-th reading of a channel analyzed since its statistics
\* were created or reset is checked against count = k-1, for every k (a channel
\* that has received k-1 readings holds count = k-1); readings 1 through 10
\* yield checked = false with samples_collected = k-1 and are never flagged
\* zscore_exceeded.
C4_CountIsReadingsSoFar ==
    /\ \A c \in DOMAIN sensor_history :
          sensor_history[c].count = Len(added[c])
    /\ call.op = "analyze" =>
          \A i \in 1..Len(trace) :
              LET r == trace[i].sensor_result
                  k == Len(added[trace[i].name])
              IN  k <= MIN_SAMPLES_FOR_ZSCORE =>
                      /\ r.zscore_result.checked = FALSE
                      /\ r.zscore_result.samples_collected = k - 1
                      /\ ~InSeq("zscore_exceeded", r.reasons)

\* C4 amended: the same for the k-th reading with k <= 101, that is while the
\* channel has received at most 100 readings (the length of the buffer).
C4_CalibrationBoundary ==
    /\ \A c \in DOMAIN sensor_history :
          Len(added[c]) <= DEQUE_MAXLEN =>
              sensor_history[c].count = Len(added[c])
    /\ call.op = "analyze" =>
          \A i \in 1..Len(trace) :
              LET r == trace[i].sensor_result
                  k == Len(added[trace[i].name])
              IN  k <= MIN_SAMPLES_FOR_ZSCORE =>
                      /\ r.zscore_result.checked = FALSE
                      /\ r.zscore_result.samples_collected = k - 1
                      /\ ~InSeq("zscore_exceeded", r.reasons)

\* the 10th reading of the ramp 1, 2, ..., 10: checked against 9 samples,
\* although the channel holds 10 once the call returns
C4_Witness ==
    /\ call.op = "analyze"
    /\ history_size = DEFAULT_HISTORY_SIZE
    /\ CalibChannel \in DOMAIN added
    /\ added[CalibChannel] = [i \in 1..MIN_SAMPLES_FOR_ZSCORE |-> i]
    /\ trace[1].sensor_result.zscore_result.checked = FALSE
    /\ trace[1].sensor_result.zscore_result.samples_collected
           = MIN_SAMPLES_FOR_ZSCORE - 1
    /\ sensor_history[CalibChannel].count = MIN_SAMPLES_FOR_ZSCORE

\* C5: while fewer than 10 values have been added to a channel's statistics,
\* check_zscore on the channel returns checked = false for every queried
\* value, with samples_collected the number of values added so far.
C5_NoZscoreBelowFloor ==
    (call.op = "check_zscore"
        /\ Seen(added, call.sensor_name) < MIN_SAMPLES_FOR_ZSCORE) =>
            /\ ret.checked = FALSE
            /\ ret.samples_collected = Seen(added, call.sensor_name)

\* check_zscore after 9 values that are not all equal
C5_Witness ==
    /\ call.op = "check_zscore"
    /\ call.value = 33
    /\ history_size = DEFAULT_HISTORY_SIZE
    /\ thresholds_arg = <<>>
    /\ z_score_threshold = Z_SCORE_THRESHOLD
    /\ call.sensor_name \in DOMAIN added
    /\ added[call.sensor_name] = <<33, 23, 23, 23, 23, 23, 23, 23, 23>>
    /\ ret.checked = FALSE
    /\ ret.samples_collected = 9

\* C6: whenever a channel holds at least 10 samples, all retained samples
\* being the same value v, the standard deviation is 0, zscore(v) is 0.0
\* (check_zscore: checked, not anomalous) and zscore(w) is None for w # v
\* (check_zscore: checked = false).
C6_DegenerateStatistics ==
    \A c \in DOMAIN sensor_history :
        LET h == sensor_history[c]
        IN  (Len(h.values) >= MIN_SAMPLES_FOR_ZSCORE /\ AllEqual(h.values)) =>
                LET v == h.values[1]
                    rv == CheckZscore(sensor_history, c, v).result
                IN  /\ StdDevIsZero(h)
                    /\ GetZscore(h, v) = <<[sgn |-> 0, sq |-> RZero]>>
                    /\ rv.checked = TRUE /\ rv.is_anomaly = FALSE
                    /\ \A w \in {v - 1, v + 1} :
                          /\ GetZscore(h, w) = <<>>
                          /\ CheckZscore(sensor_history, c, w).result.checked
                                 = FALSE

\* statistics recomputed from scratch over a window of values
RefMean(w) ==
    IF w = <<>> THEN RZero ELSE RDiv(RInt(SumInts(w)), RInt(Len(w)))

RefM2(w) == SumSqDev(w, RefMean(w))

\* the most recent min(k, capacity) of the k values added to the channel
RetainedWindow(c) ==
    LET k == Len(added[c])
        n == Min(k, history_size)
    IN  SubSeq(added[c], k - n + 1, k)

\* C7: for every window capacity, the stored count, mean and sum of squared
\* deviations equal those recomputed from scratch over the most recent
\* min(k, capacity) of the k values added.
C7_StatsMatchWindow ==
    \A c \in DOMAIN sensor_history :
        LET h == sensor_history[c]
            w == RetainedWindow(c)
        IN  /\ h.count = Len(w)
            /\ h.mean = RefMean(w)
            /\ h.m2 = RefM2(w)

\* C8: with window capacity N = history_size, after k values the count is
\* min(k, N), the sum of squared deviations is >= 0, and the variance is
\* sum_sq_dev / count when count >= 2 and 0 otherwise.
C8_CountIsMinOfSeenAndCapacity ==
    \A c \in DOMAIN sensor_history :
        LET h == sensor_history[c]
        IN  /\ h.count = Min(Len(added[c]), history_size)
            /\ ~RLess(h.m2, RZero)
            /\ Variance(h) = IF h.count >= 2 THEN RDiv(h.m2, RInt(h.count))
                             ELSE RZero

C10_AnomalyIffTriggered ==
    call.op = "analyze" =>
        (ret.anomaly_detected <=> Len(ret.triggered_sensors) > 0)

\* two readings, one of them out of range
C10_Witness ==
    /\ call.op = "analyze"
    /\ call.sensor_data = Sample(<<Reading("humidity", <<40>>),
                                   Reading("temperature", <<14>>)>>)
    /\ thresholds_arg = <<>>
    /\ use_zscore = FALSE
    /\ ret.anomaly_detected = TRUE
    /\ ret.triggered_sensors = <<"temperature">>

\* the readings that have a value, in their order
Present(readings) == SelectSeq(readings, LAMBDA r : r.value # <<>>)

\* the names of the readings whose value is None
Missing(readings) ==
    {readings[i].name : i \in {j \in 1..Len(readings) :
                                    readings[j].value = <<>>}}

\* C11: analyze skips a reading whose value is None: the channel is in
\* neither triggered_sensors nor summary, its statistics are neither created
\* nor changed, and the result and the statistics of the call are those of
\* the same call on the sample without the readings that have no value.
C11_MissingValueSkipped ==
    [][call'.op = "analyze" =>
        LET sd == call'.sensor_data
            rs == Readings(sd)
            ref == AnalyzeLoop([trace |-> <<>>, hist |-> sensor_history,
                                triggered |-> <<>>, summary |-> EmptyDict],
                               Present(rs))
        IN  /\ \A c \in Missing(rs) :
                /\ ~InSeq(c, ret'.triggered_sensors)
                /\ c \notin DOMAIN ret'.summary
                /\ (c \in DOMAIN sensor_history')
                       <=> (c \in DOMAIN sensor_history)
                /\ c \in DOMAIN sensor_history =>
                       sensor_history'[c] = sensor_history[c]
            /\ ret' = BuildResult(ref.triggered, ref.summary, sd)
            /\ sensor_history' = ref.hist]_vars

\* temperature without a value next to humidity = 70 above its maximum 60:
\* humidity alone is reported and has statistics
C11_Witness ==
    /\ call.op = "analyze"
    /\ call.sensor_data = Sample(<<Reading("temperature", <<>>),
                                   Reading("humidity", <<70>>)>>)
    /\ thresholds_arg = <<CustomThresholds>>
    /\ use_zscore = TRUE
    /\ ret.triggered_sensors = <<"humidity">>
    /\ DOMAIN ret.summary = {"humidity"}
    /\ DOMAIN sensor_history = {"humidity"}

\* C12: for every channel name c, reset_history(c) removes the statistics of
\* c only: afterwards c has none, and every other channel keeps exactly the
\* statistics (buffer, count, mean, m2) it had, so its z-score checks are
\* the ones it would have given without the reset.
C12_ResetOneChannelOnly ==
    [][(call'.op = "reset_history" /\ call'.sensor_name # <<>>) =>
        LET c == call'.sensor_name[1]
        IN  /\ c \notin DOMAIN sensor_history'
            /\ \A d \in DOMAIN sensor_history \ {c} :
                  /\ d \in DOMAIN sensor_history'
                  /\ sensor_history'[d] = sensor_history[d]]_vars

\* C13: reset_history() with no channel drops the statistics of all
\* channels; reset_history(c) for a channel c without stored statistics
\* leaves the state of the detector unchanged.
C13_ResetAllOrNothing ==
    [][call'.op = "reset_history" =>
        /\ call'.sensor_name = <<>> => sensor_history' = EmptyDict
        /\ (call'.sensor_name # <<>>
              /\ call'.sensor_name[1] \notin DOMAIN sensor_history) =>
                 /\ sensor_history' = sensor_history
                 /\ UNCHANGED config]_vars

\* how many entries of the list t are in the set S
CountIn(t, S) == Cardinality({i \in 1..Len(t) : t[i] \in S})

C15_LabelAndBand ==
    breach # <<>> =>
        LET a == breach[1]
        IN  /\ Cardinality(DOMAIN BREACH_LEVEL_LABELS) = 11
            /\ a.level \in DOMAIN BREACH_LEVEL_LABELS
            /\ a.label = BREACH_LEVEL_LABELS[a.level]
            /\ a.label # "Unknown"
            /\ a.level = 0 =>
                 a.recommendation = "Continue standard monitoring."
            /\ a.level \in 1..3 =>
                 a.recommendation
                    = "Increase scan frequency. Watch for additional triggers."
            /\ a.level \in 4..6 =>
                 a.recommendation
                    = "Alert Hawkins Lab security. Prepare containment protocols."
            /\ a.level \in 7..8 =>
                 a.recommendation
                    = "Initiate lockdown procedures. Contact Eleven."
            /\ a.level \in 9..10 =>
                 a.recommendation
                    = "EVACUATE. Full Upside Down breach protocol."

\* gas alone: level 3, the top of the scan band
C15_Witness ==
    /\ breach # <<>>
    /\ Triggered(anomaly_result) = <<"gas">>
    /\ breach[1].level = 3
    /\ breach[1].label = "Unusual activity"
    /\ breach[1].recommendation
          = "Increase scan frequency. Watch for additional triggers."

C17_InsufficientOnlyBelowFloor ==
    (call.op = "check_zscore" /\ ret.checked = FALSE
        /\ ret.reason = "insufficient_history") =>
            /\ ret.samples_needed = MIN_SAMPLES_FOR_ZSCORE
            /\ ret.samples_collected < MIN_SAMPLES_FOR_ZSCORE

\* C18: when check_zscore has a z-score for the value, it reports the
\* threshold given at construction and flags is_anomaly iff |z| is strictly
\* greater than it, |z| being the unrounded (value - mean) / std_dev: with
\* d = value - mean, iff threshold^2 < d^2 * count / m2 (never when m2 = 0,
\* where z is 0).  A value exactly threshold standard deviations from the
\* mean is not flagged.
C18_StrictUnroundedZscore ==
    (call.op = "check_zscore" /\ ret.checked = TRUE) =>
        LET h == sensor_history[call.sensor_name]
            t == z_score_threshold
            d == RSub(RInt(call.value), h.mean)
            zz == RDiv(RMul(RMul(d, d), RInt(h.count)), h.m2)
        IN  /\ ret.threshold = t
            /\ h.m2 = RZero => ~ret.is_anomaly
            /\ h.m2 # RZero =>
                  /\ ret.is_anomaly <=> RLess(RMul(t, t), zz)
                  /\ zz = RMul(t, t) => ~ret.is_anomaly

\* nine 23s and one 33: mean 24, standard deviation 3; with threshold 3 the
\* value 33 is exactly 3 standard deviations out and not flagged
C18_Witness ==
    /\ call.op = "check_zscore"
    /\ call.value = 33
    /\ z_score_threshold = <<3, 1>>
    /\ sensor_history[CalibChannel].count = MIN_SAMPLES_FOR_ZSCORE
    /\ sensor_history[CalibChannel].mean = <<24, 1>>
    /\ sensor_history[CalibChannel].m2 = <<90, 1>>
    /\ ret.checked = TRUE
    /\ ret.is_anomaly = FALSE

\* the reading of channel c in a sample
ReadingOf(sensor_data, c) ==
    LET readings == sensor_data.readings
    IN  readings[CHOOSE i \in 1..Len(readings) : readings[i].name = c]

\* C19: in every cycle (of main or of the dashboard) where an anomaly is
\* detected an explanation text is produced and it is not empty; if the
\* analyzer is absent, raises, or returns None or an empty text, the
\* explanation is the fallback template of the first triggered channel,
\* filled with that channel's value; no analyzer failure leaves the cycle;
\* get_fallback_explanation gives the generic template for a sensor type it
\* has no template for.
C19_ExplanationAlwaysProduced ==
    /\ driver # "crashed"
    /\ (call.op \in {"run_pipeline", "take_reading"}
            /\ anomaly_result.anomaly_detected) =>
          LET n == anomaly_result.triggered_sensors[1]
              r == ReadingOf(call.sensor_data, n)
          IN  /\ explanation # <<>>
              /\ explanation[1].source = "bedrock" => explanation[1].text # ""
              /\ collab[1].bedrock \in {"absent", "raises", "none", "empty"} =>
                    /\ explanation[1].source = "fallback"
                    /\ explanation[1].template = n
                    /\ explanation[1].value = r.value[1]
                    /\ explanation[1].unit = r.unit
    /\ call.op = "get_fallback_explanation" =>
          /\ ret.source = "fallback"
          /\ ret.template =
                IF call.anomaly.sensor_type \in
                       {"temperature", "humidity", "pressure", "co2",
                        "vibration", "gas", "cpu_usage"}
                    THEN call.anomaly.sensor_type
                    ELSE "generic"

\* gas and cpu_usage out of range while the analyzer raises: the gas template
C19_Witness ==
    /\ call.op = "run_pipeline"
    /\ anomaly_result.anomaly_detected
    /\ anomaly_result.triggered_sensors = <<"gas", "cpu_usage">>
    /\ collab[1].bedrock = "raises"
    /\ explanation # <<>>
    /\ explanation[1].source = "fallback"
    /\ explanation[1].template = "gas"
    /\ explanation[1].value = 200
    /\ driver = "cli"

\* C20: in any sequence of cycles, whatever the collaborators do (the
\* analyzer, the metrics client and the voice module failing, being absent
\* or returning nothing), a cycle changes the detector's statistics only by
\* adding the sample's values to the channels of the sample, and the driver
\* is left running, so that the next cycle is taken.
C20_CollaboratorsNeverAffectDetector ==
    [][(added' # added) =>
        LET readings == call'.sensor_data.readings
            names == {readings[i].name : i \in 1..Len(readings)}
        IN  /\ call'.op \in {"run_pipeline", "take_reading"}
            /\ driver \in {"cli", "dashboard"}
            /\ driver' = driver
            /\ DOMAIN sensor_history' = DOMAIN sensor_history \cup names
            /\ \A i \in 1..Len(readings) :
                  sensor_history'[readings[i].name] =
                      AddValue(HistoryOf(sensor_history, readings[i].name),
                               readings[i].value[1])
            /\ \A c \in DOMAIN sensor_history \ names :
                  sensor_history'[c] = sensor_history[c]]_vars

\* a second cycle, in which every collaborator fails
C20_Witness ==
    /\ call.op = "run_pipeline"
    /\ collab = <<[bedrock |-> "raises", datadog |-> "error",
                   voice |-> "raises"]>>
    /\ driver = "cli"
    /\ sent # <<>>
    /\ sent[1] = [kind |-> "metrics", delivery |-> "failed"]
    /\ explanation # <<>>
    /\ explanation[1].source = "fallback"
    /\ "temperature" \in DOMAIN sensor_history
    /\ sensor_history["temperature"].count = 2
    /\ sensor_history["temperature"].mean = RInt(23)

\* C21 as stated: for every window capacity N given at construction, each
\* channel's buffer holds at most N values and is the most recent min(k, N)
\* of the k values added, in arrival order (a full buffer drops exactly its
\* oldest value).
C21_BufferIsRecentWindow ==
    \A c \in DOMAIN sensor_history :
        /\ Len(sensor_history[c].values) <= history_size
        /\ sensor_history[c].values = RetainedWindow(c)

\* the names of the readings whose value is outside the bounds table T gives
\* their channel, in the order of the readings
RECURSIVE OutOfBounds(_, _)
OutOfBounds(T, readings) ==
    IF readings = <<>> THEN <<>>
    ELSE LET r == Head(readings)
             out == /\ r.value # <<>>
                    /\ r.name \in DOMAIN T
                    /\ (r.value[1] < T[r.name].min \/ r.value[1] > T[r.name].max)
         IN  (IF out THEN <<r.name>> ELSE <<>>) \o OutOfBounds(T, Tail(readings))

\* C22: with z-score mode disabled, after any sequence of analyze calls the
\* detector holds no per-channel statistics; no result contains a
\* zscore_result or the reason zscore_exceeded; the methods listed are
\* exactly [threshold]; and the result for a sample is decided by the sample
\* and the threshold table alone: the triggered channels are those whose
\* value is outside its bounds, each with its one threshold reason.
C22_ThresholdOnlyWhenZscoreOff ==
    /\ ~use_zscore
    /\ sensor_history = EmptyDict
    /\ call.op = "analyze" =>
          /\ ret.metadata.detection_methods = <<"threshold">>
          /\ ret.triggered_sensors =
                OutOfBounds(thresholds, Readings(call.sensor_data))
          /\ ret.anomaly_detected <=> ret.triggered_sensors # <<>>
          /\ \A i \in 1..Len(trace) :
                /\ "zscore_result" \notin DOMAIN trace[i].sensor_result
                /\ ~InSeq("zscore_exceeded", trace[i].sensor_result.reasons)
          /\ \A c \in DOMAIN ret.summary :
                /\ "zscore_result" \notin DOMAIN ret.summary[c]
                /\ Len(ret.summary[c].reasons) = 1
                /\ ret.summary[c].reasons[1] \in
                      {"threshold_below_min", "threshold_above_max"}

\* temperature 14 below its minimum 15, humidity without configured bounds
C22_Witness ==
    /\ ~use_zscore
    /\ call.op = "analyze"
    /\ thresholds_arg = <<>>
    /\ Len(trace) = 2
    /\ ret.triggered_sensors = <<"temperature">>
    /\ ret.summary["temperature"].reasons = <<"threshold_below_min">>
    /\ ret.metadata.detection_methods = <<"threshold">>
    /\ sensor_history = EmptyDict

\* the count a channel's check sees: that of its statistics, 0 without any
CountOf(H, c) == IF c \in DOMAIN H THEN H[c].count ELSE 0

\* the names of the readings an analyze call went through
Analyzed(t) == {t[i].name : i \in 1..Len(t)}

\* C23: a channel's statistics exist from the first reading of the channel
\* and are kept, with their count, by every later call that is not a reset;
\* reset_history(c) removes those of c and reset_history() those of every
\* channel; a reading analyzed while the channel's count n is below 10 (0
\* without statistics) yields checked = false with samples_collected = n and
\* leaves the count at n + 1.  Hence the 10 readings that follow a reset
\* report 0, 1, ..., 9, whatever was read before the reset.
C23_CalibrationRestartsAfterReset ==
    [][/\ (call'.op = "analyze" /\ use_zscore) =>
            \A i \in 1..Len(trace') :
                LET c == trace'[i].name
                    r == trace'[i].sensor_result.zscore_result
                    n == CountOf(sensor_history, c)
                IN  /\ c \in DOMAIN sensor_history'
                    /\ n < MIN_SAMPLES_FOR_ZSCORE =>
                          /\ r.checked = FALSE
                          /\ r.samples_collected = n
                          /\ sensor_history'[c].count = n + 1
       /\ call'.op # "reset_history" =>
            \A c \in DOMAIN sensor_history :
                /\ c \in DOMAIN sensor_history'
                /\ c \notin Analyzed(trace') =>
                      sensor_history'[c] = sensor_history[c]
       /\ call'.op = "reset_history" =>
            IF call'.sensor_name = <<>>
                THEN sensor_history' = EmptyDict
                ELSE /\ call'.sensor_name[1] \notin DOMAIN sensor_history'
                     /\ \A c \in DOMAIN sensor_history \ {call'.sensor_name[1]} :
                           /\ c \in DOMAIN sensor_history'
                           /\ sensor_history'[c] = sensor_history[c]]_vars

\* the reading analyzed right after a reset, checked against no sample
C23_Witness ==
    /\ call.op = "analyze"
    /\ use_zscore
    /\ history_size = DEFAULT_HISTORY_SIZE
    /\ thresholds_arg = <<CalibThresholds>>
    /\ trace[1].name = CalibChannel
    /\ trace[1].sensor_result.value = 33
    /\ trace[1].sensor_result.zscore_result.checked = FALSE
    /\ trace[1].sensor_result.zscore_result.samples_collected = 0
    /\ sensor_history[CalibChannel].count = 1
    /\ added[CalibChannel] = <<33>>

\* C24: a reading of the dashboard taken while there is no sticky alert sets
\* it iff the reading is anomalous, to that reading's data, result,
\* assessment and explanation; a reading taken while there is one leaves it
\* as it is, anomalous or not; only the acknowledgement clears it, and it
\* clears it whenever there is one, after which an anomalous reading sets it
\* again.
C24_StickyAlertUntilAcknowledged ==
    [][driver = "dashboard" =>
        /\ (added' # added) =>
              /\ call'.op = "take_reading"
              /\ session.sticky_alert # <<>> =>
                    session'.sticky_alert = session.sticky_alert
              /\ (session.sticky_alert = <<>>
                    /\ ~anomaly_result'.anomaly_detected) =>
                    session'.sticky_alert = <<>>
              /\ (session.sticky_alert = <<>>
                    /\ anomaly_result'.anomaly_detected) =>
                    /\ session'.sticky_alert # <<>>
                    /\ session'.sticky_alert[1].data = call'.sensor_data
                    /\ session'.sticky_alert[1].result = anomaly_result'
                    /\ session'.sticky_alert[1].breach = breach'[1]
                    /\ <<session'.sticky_alert[1].ai_text>> = <<explanation'>>
        /\ (added' = added) =>
              /\ session.sticky_alert # <<>>
              /\ session' = [session EXCEPT !.sticky_alert = <<>>]
        /\ (session.sticky_alert # <<>> /\ session'.sticky_alert = <<>>) =>
              added' = added]_vars

\* an alert set by the first reading, still there after a normal second one
C24_Witness ==
    /\ driver = "dashboard"
    /\ call.op = "take_reading"
    /\ ~anomaly_result.anomaly_detected
    /\ Len(session.history) = 2
    /\ session.history[1].anomaly = TRUE
    /\ session.sticky_alert # <<>>
    /\ session.sticky_alert[1].result.triggered_sensors = <<"temperature">>
    /\ session.sticky_alert[1].data # call.sensor_data
    /\ session.last_reading[1].data = call.sensor_data

\* C25 as stated: for every window capacity given at construction, in every
\* state the stored count of a channel equals the number of values its
\* buffer holds.
C25_CountIsBufferLength ==
    \A c \in DOMAIN sensor_history :
        sensor_history[c].count = Len(sensor_history[c].values)

\* where the reading of channel c stands in a sequence of readings
PositionOf(readings, c) ==
    CHOOSE p \in 1..Len(readings) : readings[p].name = c

\* the readings that have a value
HasValue(r) == r.value # <<>>

\* C26: in the result of an analyze call (made directly or by a cycle), the
\* summary has an entry for exactly the channels of triggered_sensors; these
\* are distinct and stand in the order of the sample's readings; every entry
\* has at least one reason and is the result computed for that reading; a
\* channel analyzed without a reason has no entry.
C26_SummaryMatchesTriggered ==
    call.op \in {"analyze", "run_pipeline", "take_reading"} =>
        LET result == IF call.op = "analyze" THEN ret ELSE anomaly_result
            t == result.triggered_sensors
            summary == result.summary
            readings == SelectSeq(Readings(call.sensor_data), HasValue)
        IN  /\ DOMAIN summary = {t[i] : i \in 1..Len(t)}
            /\ \A i, j \in 1..Len(t) :
                  i < j => /\ t[i] # t[j]
                           /\ PositionOf(readings, t[i])
                                 < PositionOf(readings, t[j])
            /\ \A c \in DOMAIN summary : summary[c].reasons # <<>>
            /\ Len(trace) = Len(readings)
            /\ \A i \in 1..Len(trace) :
                  /\ trace[i].name = readings[i].name
                  /\ trace[i].sensor_result.reasons # <<>> =>
                        /\ trace[i].name \in DOMAIN summary
                        /\ summary[trace[i].name] = trace[i].sensor_result
                  /\ trace[i].sensor_result.reasons = <<>> =>
                        /\ trace[i].name \notin DOMAIN summary
                        /\ ~InSeq(trace[i].name, t)

\* four readings, the second and the fourth out of range
C26_Witness ==
    /\ call.op = "take_reading"
    /\ Len(call.sensor_data.readings) = 4
    /\ anomaly_result.triggered_sensors = <<"gas", "cpu_usage">>
    /\ DOMAIN anomaly_result.summary = {"gas", "cpu_usage"}
    /\ anomaly_result.summary["cpu_usage"].reasons = <<"threshold_above_max">>
    /\ trace[3].name = "vibration"
    /\ trace[3].sensor_result.reasons = <<>>

\* the entries of a list are distinct, as the keys of a sample's readings are
Distinct(t) == \A i, j \in 1..Len(t) : i # j => t[i] # t[j]

\* the level compute_breach_level gives a result with the triggered list t
LevelOf(t) ==
    ComputeBreachLevel([triggered_sensors |-> t,
                        anomaly_detected |-> Len(t) > 0]).level

\* the channels of the default table and one a custom table may add
AssessedNames == BreachNames \cup {"humidity"}

\* the triggered lists analyze can return over these channels
AssessedLists ==
    {t \in UNION {[1..n -> AssessedNames] : n \in 0..MaxTriggered} :
        Distinct(t)}

\* the level of a list of distinct names is 0 or one of 2..10
LevelsAmong == \A t \in AssessedLists : LevelOf(t) \in {0} \cup (2..10)

\* each of the levels 0 and 2..10 is the level of some list of distinct names
LevelsAttained ==
    \A l \in {0} \cup (2..10) : \E t \in AssessedLists : LevelOf(t) = l

\* one more triggered channel never gives a lower level
LevelMonotone ==
    \A t \in AssessedLists : \A c \in AssessedNames \ {t[i] : i \in 1..Len(t)} :
        LevelOf(Append(t, c)) >= LevelOf(t)

\* C27: no assessment has level 1 nor the label "Minor fluctuation"; for
\* triggered lists of distinct names the levels are exactly 0 and 2 to 10
\* (each of them occurs); a list with one more channel never has a lower
\* level.
C27_LevelNeverOne ==
    /\ breach # <<>> =>
          /\ breach[1].level # 1
          /\ breach[1].label # "Minor fluctuation"
          /\ breach[1].level \in {0} \cup (2..10)
    /\ LevelsAmong
    /\ LevelsAttained
    /\ LevelMonotone

\* one non-critical channel: the lowest level above 0
C27_Witness ==
    /\ breach # <<>>
    /\ Triggered(anomaly_result) = <<"vibration">>
    /\ breach[1].level = 2
    /\ breach[1].label = BREACH_LEVEL_LABELS[2]
    /\ breach[1].label # "Minor fluctuation"

\* the alert events among what a cycle handed to the metrics client
Alerts(s) == {i \in 1..Len(s) : s[i].kind = "alert"}

\* C28 as stated: a cycle of run_pipeline sends at most one anomaly alert
\* event, and none when no anomaly is detected, whether or not the metrics
\* client is configured.
C28_AtMostOneAlert ==
    call.op = "run_pipeline" =>
        /\ Cardinality(Alerts(sent)) <= 1
        /\ ~anomaly_result.anomaly_detected => Alerts(sent) = {}

\* C29: once the flag is set main starts no cycle; the wait is left at its
\* next look at the flag, without another round of sleep, and the test that
\* follows leaves the loop; a cycle that has begun is completed whether or
\* not the flag is set meanwhile; past the loop nothing runs any more; and
\* once the flag is set main does get past the loop.
C29_ShutdownOnSignal ==
    /\ [][/\ (stop_flag # <<>> /\ loop.pc # "cycle") => loop'.pc # "cycle"
          /\ (stop_flag # <<>> /\ loop.pc = "sleep" /\ loop' # loop) =>
                loop' = [loop EXCEPT !.pc = "test"]
          /\ (stop_flag # <<>> /\ loop.pc = "test" /\ loop' # loop) =>
                loop'.pc = "exit"
          /\ (loop.pc = "cycle" /\ loop' # loop) =>
                /\ call'.op = "run_pipeline"
                /\ added' # added
                /\ breach' # <<>>
                /\ anomaly_result'.anomaly_detected => explanation' # <<>>
                /\ loop'.pc = "sleep"
          /\ loop.pc = "exit" =>
                /\ loop' = loop
                /\ UNCHANGED <<sensor_history, call, sent>>]_vars
    /\ (stop_flag # <<>>) ~> (loop.pc = "exit")

\* main past its loop after one signal that cut the wait short
C29_Witness ==
    /\ loop.pc = "exit"
    /\ Len(stop_flag) = 1
    /\ loop.n = INTERVAL_ROUNDS
    /\ loop.i > 0
    /\ loop.i < loop.n
    /\ call.op = "run_pipeline"
    /\ sensor_history["temperature"].count = 1


\* the positions of the sample's readings that carry a value
Valued(readings) == {i \in 1..Len(readings) : readings[i].value # <<>>}

\* C30: with z-score mode enabled, an analyze call adds exactly one value,
\* the reading's, to the statistics of each channel that has a value in the
\* sample (below capacity: the count grows by 1 and the buffer by that value)
\* and leaves every other channel as it was, present or not; a direct call of
\* check_threshold or check_zscore leaves the count, mean, buffer and sum of
\* squared deviations of every channel as they were (check_zscore on a
\* channel never read creates its empty statistics: count 0, no value).
C30_AnalyzeFeedsEachChannelOnce ==
    [][/\ (call'.op = "analyze" /\ use_zscore) =>
            LET readings == Readings(call'.sensor_data)
                fed == {readings[i].name : i \in Valued(readings)}
            IN  /\ DOMAIN sensor_history' = DOMAIN sensor_history \cup fed
                /\ \A i \in Valued(readings) :
                      LET c == readings[i].name
                          h == HistoryOf(sensor_history, c)
                      IN  (Len(h.values) < h.max_samples
                              /\ Len(h.values) < DEQUE_MAXLEN) =>
                             /\ sensor_history'[c].count = h.count + 1
                             /\ sensor_history'[c].values =
                                    Append(h.values, readings[i].value[1])
                /\ \A c \in DOMAIN sensor_history \ fed :
                      sensor_history'[c] = sensor_history[c]
       /\ call'.op \in {"check_threshold", "check_zscore"} =>
            /\ DOMAIN sensor_history \subseteq DOMAIN sensor_history'
            /\ \A c \in DOMAIN sensor_history' :
                  sensor_history'[c] = HistoryOf(sensor_history, c)]_vars

\* a sample with humidity alone, analyzed after temperature was fed once
C30_Witness ==
    /\ call.op = "analyze"
    /\ use_zscore
    /\ Len(Readings(call.sensor_data)) = 1
    /\ Readings(call.sensor_data)[1].name = "humidity"
    /\ Valued(Readings(call.sensor_data)) = {1}
    /\ DOMAIN sensor_history = {"temperature", "humidity"}
    /\ sensor_history["temperature"].count = 1
    /\ sensor_history["humidity"].count = 2
====
